---- MODULE Spec2Model ----
(***************************************************************************)
(* The review and status-check service of backend/server.py: the request   *)
(* schemas, the six route handlers and the two MongoDB collections they    *)
(* read and write.                                                         *)
(*                                                                         *)
(* Representation.  A Python str is a sequence of character codes.  An     *)
(* optional value (a JSON field that may be missing, Optional[str]) is a   *)
(* sequence of length 0 (missing / None) or 1 (the value).  A uuid4 is a   *)
(* fresh token, numbered in the order of generation.  A datetime is the    *)
(* record [minute, second, microsecond]: the modelled interval lies within *)
(* one hour of one day, so the date and the hour are a common prefix of    *)
(* every timestamp and are left out of the datetime and of its isoformat   *)
(* string.  A float with one decimal is the integer number of tenths.      *)
(***************************************************************************)
EXTENDS Integers, Sequences, FiniteSets, TLC

VARIABLES
    reviews,        \* db.reviews: the documents, in natural (insertion) order
    status_checks,  \* db.status_checks: the documents, in natural order
    clock,          \* the wall clock, in microseconds since the modelled hour began
    uuids,          \* how many uuid4 tokens were generated
    tasks,          \* the POST coroutines suspended at their insert_one
    last            \* the request that completed last: its input, status and output

vars == <<reviews, status_checks, clock, uuids, tasks, last>>

----------------------------------------------------------------------------
(* Bounds of the model.                                                    *)

MaxDocs == 2          \* documents stored or about to be stored, both collections
MaxTicks == 1         \* clock advances
ClockStep == 500000   \* microseconds per clock advance
MaxRatings == 5       \* SpecRatings: review documents stored
CapExtra == 2         \* SpecCap: documents added to the full collections

----------------------------------------------------------------------------
(* Strings.                                                                *)

Str(c, n) == [i \in 1..n |-> c]

Digit(d) == 48 + d

\* Python's "%02d" and "%06d" as isoformat uses them
Digits2(n) == <<Digit((n \div 10) % 10), Digit(n % 10)>>

Digits6(n) ==
    <<Digit((n \div 100000) % 10), Digit((n \div 10000) % 10),
      Digit((n \div 1000) % 10), Digit((n \div 100) % 10),
      Digit((n \div 10) % 10), Digit(n % 10)>>

\* int() of a run of decimal digits
RECURSIVE ParseInt(_)
ParseInt(s) ==
    IF s = <<>> THEN 0
    ELSE 10 * ParseInt(SubSeq(s, 1, Len(s) - 1)) + (s[Len(s)] - 48)

\* MongoDB's simple binary collation of two strings: a < b
RECURSIVE LexLess(_, _, _)
LexLess(a, b, i) ==
    IF i > Len(b) THEN FALSE
    ELSE IF i > Len(a) THEN TRUE
    ELSE IF a[i] # b[i] THEN a[i] < b[i]
    ELSE LexLess(a, b, i + 1)

StrLess(a, b) == a # b /\ LexLess(a, b, 1)

----------------------------------------------------------------------------
(* datetime.                                                               *)

\* datetime.now(timezone.utc) when the wall clock reads c
Now(c) ==
    [minute |-> (c \div 60000000) % 60,
     second |-> (c \div 1000000) % 60,
     microsecond |-> c % 1000000]

\* datetime.isoformat(timespec="seconds"): the microsecond is dropped
isoformat_Seconds(dt) ==
    Digits2(dt.minute) \o <<58>> \o Digits2(dt.second)
    \o <<43, 48, 48, 58, 48, 48>>

\* datetime.isoformat() of an aware UTC datetime: "MM:SS+00:00" when the
\* microsecond is 0, "MM:SS.ffffff+00:00" otherwise
isoformat(dt) ==
    Digits2(dt.minute) \o <<58>> \o Digits2(dt.second)
    \o (IF dt.microsecond = 0 THEN <<>> ELSE <<46>> \o Digits6(dt.microsecond))
    \o <<43, 48, 48, 58, 48, 48>>

\* datetime.fromisoformat() of such a string
fromisoformat(s) ==
    [minute |-> ParseInt(SubSeq(s, 1, 2)),
     second |-> ParseInt(SubSeq(s, 4, 5)),
     microsecond |-> IF s[6] = 46 THEN ParseInt(SubSeq(s, 7, 12)) ELSE 0]

----------------------------------------------------------------------------
(* The schemas.                                                            *)

NameMinLen == 1
NameMaxLen == 100
RatingMin == 1
RatingMax == 5
CommentMaxLen == 500

\* ReviewCreate with rating declared le=6: the request model lets a 6 through
ReviewCreateErrors_RatingLe6(body) ==
    {f \in {"name"} :
        \/ body.name = <<>>
        \/ Len(body.name[1]) < NameMinLen
        \/ Len(body.name[1]) > NameMaxLen}
    \cup
    {f \in {"rating"} :
        \/ body.rating = <<>>
        \/ body.rating[1] < RatingMin
        \/ body.rating[1] > RatingMax + 1}
    \cup
    {f \in {"comment"} :
        /\ body.comment # <<>>
        /\ Len(body.comment[1]) > CommentMaxLen}

\* ReviewCreate with no max_length on name
ReviewCreateErrors_NameUnbounded(body) ==
    {f \in {"name"} :
        \/ body.name = <<>>
        \/ Len(body.name[1]) < NameMinLen}
    \cup
    {f \in {"rating"} :
        \/ body.rating = <<>>
        \/ body.rating[1] < RatingMin
        \/ body.rating[1] > RatingMax}
    \cup
    {f \in {"comment"} :
        /\ body.comment # <<>>
        /\ Len(body.comment[1]) > CommentMaxLen}

\* ReviewCreate: the fields of a POST /reviews body that fail validation
ReviewCreateErrors(body) ==
    {f \in {"name"} :
        \/ body.name = <<>>
        \/ Len(body.name[1]) < NameMinLen
        \/ Len(body.name[1]) > NameMaxLen}
    \cup
    {f \in {"rating"} :
        \/ body.rating = <<>>
        \/ body.rating[1] < RatingMin
        \/ body.rating[1] > RatingMax}
    \cup
    {f \in {"comment"} :
        /\ body.comment # <<>>
        /\ Len(body.comment[1]) > CommentMaxLen}

\* Review: whether the field values pass the model's own constraints
ReviewValid(rating) == rating >= RatingMin /\ rating <= RatingMax

\* Review(name=..., rating=..., comment=...): id and created_at come from the
\* default factories
Review(name, rating, comment, uuid, now) ==
    [id |-> uuid, name |-> name, rating |-> rating, comment |-> comment,
     created_at |-> now]

\* StatusCheckCreate with client_name declared min_length=1
StatusCheckCreateErrors_MinLength1(body) ==
    {f \in {"client_name"} :
        \/ body.client_name = <<>>
        \/ Len(body.client_name[1]) < 1}

\* StatusCheckCreate: the fields of a POST /status body that fail validation
StatusCheckCreateErrors(body) ==
    {f \in {"client_name"} : body.client_name = <<>>}

\* StatusCheck(**status_dict)
StatusCheck(client_name, uuid, now) ==
    [id |-> uuid, client_name |-> client_name, timestamp |-> now]

\* the members of SortOrder
SortOrder == {"date_desc", "date_asc", "rating_desc", "rating_asc"}

\* the default of get_reviews' sort parameter
SortDefault == "date_desc"

\* a sort parameter typed str, an unknown value falling back to the default
ParseSort_Fallback(param) ==
    IF param = <<>> THEN <<SortDefault>>
    ELSE IF param[1] \in SortOrder THEN param
    ELSE <<SortDefault>>

\* FastAPI's parse of the sort query parameter: <<>> when the value is no
\* member of SortOrder
ParseSort(param) ==
    IF param = <<>> THEN <<SortDefault>>
    ELSE IF param[1] \in SortOrder THEN param
    ELSE <<>>

----------------------------------------------------------------------------
(* The database operations.                                                *)

\* an upsert keyed on the payload in place of insert_one: a document whose
\* name, rating, comment and time are already stored is not added again
insert_one_Upsert(coll, doc) ==
    IF \E i \in 1..Len(coll) :
           \A f \in (DOMAIN doc) \ {"id"} : f \in DOMAIN coll[i] /\ coll[i][f] = doc[f]
    THEN coll
    ELSE Append(coll, [f \in (DOMAIN doc) \cup {"_id"} |->
                         IF f = "_id" THEN Len(coll) + 1 ELSE doc[f]])

\* collection.insert_one(doc): the driver adds a fresh _id
insert_one(coll, doc) ==
    Append(coll, [f \in (DOMAIN doc) \cup {"_id"} |->
                    IF f = "_id" THEN Len(coll) + 1 ELSE doc[f]])

\* collection.find({}, {"_id": 0}): every document, without its _id
find(coll) ==
    [i \in 1..Len(coll) |-> [f \in (DOMAIN coll[i]) \ {"_id"} |-> coll[i][f]]]

\* sort_options with the rating orders breaking ties oldest first
sort_options_TiesOldestFirst(sort) ==
    CASE sort = "date_desc" -> << <<"created_at", -1>> >>
      [] sort = "date_asc" -> << <<"created_at", 1>> >>
      [] sort = "rating_desc" -> << <<"rating", -1>>, <<"created_at", 1>> >>
      [] sort = "rating_asc" -> << <<"rating", 1>>, <<"created_at", 1>> >>

\* sort_options[sort]: the (field, direction) list handed to cursor.sort
sort_options(sort) ==
    CASE sort = "date_desc" -> << <<"created_at", -1>> >>
      [] sort = "date_asc" -> << <<"created_at", 1>> >>
      [] sort = "rating_desc" -> << <<"rating", -1>>, <<"created_at", -1>> >>
      [] sort = "rating_asc" -> << <<"rating", 1>>, <<"created_at", -1>> >>

\* MongoDB's comparison of one field of two documents: a[field] < b[field].
\* rating is stored as an integer, created_at as a string.
FieldLess(a, b, field) ==
    IF field = "rating" THEN a.rating < b.rating
    ELSE StrLess(a.created_at, b.created_at)

\* whether a sorts strictly before b under the sort specification, from its
\* i-th key on
RECURSIVE SortsBefore(_, _, _, _)
SortsBefore(a, b, spec, i) ==
    IF i > Len(spec) THEN FALSE
    ELSE IF FieldLess(a, b, spec[i][1]) THEN spec[i][2] = 1
    ELSE IF FieldLess(b, a, spec[i][1]) THEN spec[i][2] = -1
    ELSE SortsBefore(a, b, spec, i + 1)

Reverse(s) == [i \in 1..Len(s) |-> s[Len(s) + 1 - i]]

\* the first and the last index of the run of documents around s[i] that are
\* equal to it on every sort key, in a sorted s
RECURSIVE RunStart(_, _, _)
RunStart(s, spec, i) ==
    IF i > 1 /\ ~SortsBefore(s[i - 1], s[i], spec, 1)
    THEN RunStart(s, spec, i - 1) ELSE i

RECURSIVE RunEnd(_, _, _)
RunEnd(s, spec, i) ==
    IF i < Len(s) /\ ~SortsBefore(s[i], s[i + 1], spec, 1)
    THEN RunEnd(s, spec, i + 1) ELSE i

\* a sorted s with every run of equal documents reversed
ReverseRuns(s, spec) ==
    [i \in 1..Len(s) |-> s[RunStart(s, spec, i) + RunEnd(s, spec, i) - i]]

\* cursor.sort(spec): the orders the server may return.  Documents that are
\* equal on every sort key come in the order the scan met them, and the scan
\* order is the server's choice: forward or backward over the collection.
\* The sort (SortSeq, a stable insertion sort) runs on the scan that is nearer
\* to sorted; the other scan gives the same order with the runs reversed.
cursor_sort(docs, spec) ==
    LET Before(a, b) == SortsBefore(a, b, spec, 1)
        scan == IF docs # <<>> /\ Before(docs[Len(docs)], docs[1])
                THEN Reverse(docs) ELSE docs
        sorted == SortSeq(scan, Before)
    IN  {sorted, ReverseRuns(sorted, spec)}

\* the length argument of to_list in get_reviews and in get_status_checks
ReviewListCap == 1000
StatusListCap == 1000

\* cursor.to_list(None): every document
to_list_All(docs, length) == docs

\* cursor.to_list(length)
to_list(docs, length) ==
    IF Len(docs) <= length THEN docs ELSE SubSeq(docs, 1, length)

\* the sum of the rating field over the documents whose rating is in S: each
\* rating, times how often it occurs
RECURSIVE SumOver(_, _)
SumOver(S, docs) ==
    IF S = {} THEN 0
    ELSE LET r == CHOOSE r \in S : TRUE
         IN  r * Cardinality({i \in 1..Len(docs) : docs[i].rating = r})
             + SumOver(S \ {r}, docs)

\* $avg's sum of the rating field
SumRatings(docs) == SumOver({docs[i].rating : i \in 1..Len(docs)}, docs)

\* collection.aggregate([{$group: {_id: None, average_rating: {$avg: "$rating"},
\* total_reviews: {$sum: 1}}}]): no group for an empty collection.  The
\* average is the double nearest to sum / count, kept as that pair.
aggregate(coll) ==
    IF coll = <<>> THEN <<>>
    ELSE <<[average_rating |-> <<SumRatings(coll), Len(coll)>>,
            total_reviews |-> Len(coll)]>>

----------------------------------------------------------------------------
(* round(x, 1) of the double x nearest to p / q, in tenths.                *)

RECURSIVE Pow2Mod(_, _)
Pow2Mod(k, q) == IF k = 0 THEN 1 % q ELSE (2 * Pow2Mod(k - 1, q)) % q

RECURSIVE Gcd(_, _)
Gcd(a, b) == IF b = 0 THEN a ELSE Gcd(b, a % b)

RECURSIVE IsPow2(_)
IsPow2(n) == n = 1 \/ (n % 2 = 0 /\ IsPow2(n \div 2))

\* p / q is a double exactly (for the small p and q here: its reduced
\* denominator is a power of two)
Dyadic(p, q) == IsPow2(q \div Gcd(p, q))

\* the binary exponent of p / q >= 1
RECURSIVE Exponent(_, _)
Exponent(p, q) == IF p < 2 * q THEN 0 ELSE 1 + Exponent(p, 2 * q)

\* the double nearest to p / q lies above p / q: the part of p / q below the
\* 53rd significant bit is more than half a unit in the last place
DoubleAbove(p, q) ==
    2 * (((p % q) * Pow2Mod(52 - Exponent(p, q), q)) % q) > q

\* truncation to one decimal in place of round
round1_Truncate(p, q) == (10 * p) \div q

\* round(x, 1) is correctly rounded on the double's exact value, an exact tie
\* going to the even tenth
round1(p, q) ==
    LET t == (10 * p) \div q
        r == (10 * p) % q
    IN  IF 2 * r < q THEN t
        ELSE IF 2 * r > q THEN t + 1
        ELSE IF Dyadic(p, q) THEN (IF t % 2 = 0 THEN t ELSE t + 1)
        ELSE IF DoubleAbove(p, q) THEN t + 1
        ELSE t

----------------------------------------------------------------------------
(* The requests the model sends.                                           *)

\* a POST /reviews body within every bound
BaseBody == [name |-> <<Str(97, NameMinLen)>>, rating |-> <<RatingMax>>, comment |-> <<>>]

\* bodies at the bounds: the shortest name with the highest rating and no
\* comment, the longest name with the lowest rating and the longest comment
ValidBodies ==
    {BaseBody,
     [name |-> <<Str(97, NameMaxLen)>>, rating |-> <<RatingMin>>,
      comment |-> <<Str(99, CommentMaxLen)>>]}

\* bodies that break one bound each, and one that breaks all three
InvalidBodies ==
    {[BaseBody EXCEPT !.name = <<>>],
     [BaseBody EXCEPT !.name = <<Str(97, NameMinLen - 1)>>],
     [BaseBody EXCEPT !.name = <<Str(97, NameMaxLen + 1)>>],
     [BaseBody EXCEPT !.rating = <<>>],
     [BaseBody EXCEPT !.rating = <<RatingMin - 1>>],
     [BaseBody EXCEPT !.rating = <<RatingMax + 1>>],
     [BaseBody EXCEPT !.comment = <<Str(99, CommentMaxLen + 1)>>],
     [name |-> <<Str(97, NameMaxLen + 1)>>, rating |-> <<RatingMin - 1>>,
      comment |-> <<Str(99, CommentMaxLen + 1)>>]}

ReviewBodies == ValidBodies \cup InvalidBodies

\* client_name: missing, "", one character
StatusBodies == [client_name : {<<>>, <<Str(98, 0)>>, <<Str(98, 1)>>}]

\* the sort query parameter: omitted, each member of SortOrder, another value
SortParams == {<<>>} \cup {<<s>> : s \in SortOrder} \cup {<<"rating">>}

\* the documents stored or about to be stored
Documents == Len(reviews) + Len(status_checks) + Cardinality(tasks)

----------------------------------------------------------------------------
(* The service.                                                            *)

Init ==
    /\ reviews = <<>>
    /\ status_checks = <<>>
    /\ clock = 0
    /\ uuids = 0
    /\ tasks = {}
    /\ last = [op |-> "none", status |-> 0]

\* the wall clock advances
Tick(limit) ==
    /\ clock < limit
    /\ clock' = clock + ClockStep
    /\ UNCHANGED <<reviews, status_checks, uuids, tasks, last>>

\* GET /
root ==
    /\ last' = [op |-> "root", status |-> 200,
                output |-> [message |-> "La Congolaise API"]]
    /\ UNCHANGED <<reviews, status_checks, clock, uuids, tasks>>

\* POST /reviews, to the handler's await: the body is validated, the Review
\* built and dumped, and the coroutine suspends in insert_one
create_review(body, limit) ==
    IF ReviewCreateErrors(body) # {}
    THEN /\ last' = [op |-> "create_review", input |-> body, status |-> 422,
                     output |-> ReviewCreateErrors(body)]
         /\ UNCHANGED <<reviews, status_checks, clock, uuids, tasks>>
    ELSE IF ~ReviewValid(body.rating[1])
    THEN /\ last' = [op |-> "create_review", input |-> body, status |-> 500]
         /\ UNCHANGED <<reviews, status_checks, clock, uuids, tasks>>
    ELSE /\ Documents < limit
         /\ tasks' = tasks \cup
                {[op |-> "create_review", review_input |-> body,
                  review |-> Review(body.name[1], body.rating[1], body.comment,
                                    uuids + 1, Now(clock))]}
         /\ uuids' = uuids + 1
         /\ UNCHANGED <<reviews, status_checks, clock, last>>

\* review.model_dump() with created_at replaced by its isoformat string
review_doc(review) == [review EXCEPT !.created_at = isoformat(review.created_at)]

\* POST /reviews, from the await on: the document is inserted and the Review
\* returned
create_review_resume(t) ==
    /\ t.op = "create_review"
    /\ reviews' = insert_one(reviews, review_doc(t.review))
    /\ last' = [op |-> "create_review", input |-> t.review_input, status |-> 200,
                output |-> t.review]
    /\ tasks' = tasks \ {t}
    /\ UNCHANGED <<status_checks, clock, uuids>>

\* the loop of get_reviews (and of get_status_checks, on timestamp): a
\* string is parsed back into a datetime
parse_dates(docs, field) ==
    [i \in 1..Len(docs) |-> [docs[i] EXCEPT ![field] = fromisoformat(docs[i][field])]]

\* GET /reviews?sort=param
get_reviews(param) ==
    /\ IF ParseSort(param) = <<>>
       THEN last' = [op |-> "get_reviews", input |-> param, status |-> 422,
                     output |-> {"sort"}]
       ELSE \E sorted \in cursor_sort(find(reviews), sort_options(ParseSort(param)[1])) :
                LET listed == parse_dates(to_list(sorted, ReviewListCap), "created_at")
                IN  IF \A i \in 1..Len(listed) : ReviewValid(listed[i].rating)
                    THEN last' = [op |-> "get_reviews", input |-> param,
                                  status |-> 200, output |-> listed]
                    ELSE last' = [op |-> "get_reviews", input |-> param,
                                  status |-> 500]
    /\ UNCHANGED <<reviews, status_checks, clock, uuids, tasks>>

\* GET /reviews/stats
get_review_stats ==
    /\ LET result == to_list(aggregate(reviews), 1)
       IN  IF result # <<>>
           THEN last' = [op |-> "get_review_stats", status |-> 200,
                         output |-> [average_rating |->
                                         round1(result[1].average_rating[1],
                                                result[1].average_rating[2]),
                                     total_reviews |-> result[1].total_reviews]]
           ELSE last' = [op |-> "get_review_stats", status |-> 200,
                         output |-> [average_rating |-> 0, total_reviews |-> 0]]
    /\ UNCHANGED <<reviews, status_checks, clock, uuids, tasks>>

\* POST /status, to the handler's await
create_status_check(body, limit) ==
    IF StatusCheckCreateErrors(body) # {}
    THEN /\ last' = [op |-> "create_status_check", input |-> body, status |-> 422,
                     output |-> StatusCheckCreateErrors(body)]
         /\ UNCHANGED <<reviews, status_checks, clock, uuids, tasks>>
    ELSE /\ Documents < limit
         /\ tasks' = tasks \cup
                {[op |-> "create_status_check", input |-> body,
                  status_obj |-> StatusCheck(body.client_name[1], uuids + 1,
                                             Now(clock))]}
         /\ uuids' = uuids + 1
         /\ UNCHANGED <<reviews, status_checks, clock, last>>

\* status_obj.model_dump() with timestamp replaced by its isoformat string
status_doc(status_obj) == [status_obj EXCEPT !.timestamp = isoformat(status_obj.timestamp)]

\* POST /status, from the await on, inserting into db.reviews
create_status_check_resume_IntoReviews(t) ==
    /\ t.op = "create_status_check"
    /\ reviews' = insert_one(reviews, status_doc(t.status_obj))
    /\ last' = [op |-> "create_status_check", input |-> t.input, status |-> 200,
                output |-> t.status_obj]
    /\ tasks' = tasks \ {t}
    /\ UNCHANGED <<status_checks, clock, uuids>>

\* POST /status, from the await on
create_status_check_resume(t) ==
    /\ t.op = "create_status_check"
    /\ status_checks' = insert_one(status_checks, status_doc(t.status_obj))
    /\ last' = [op |-> "create_status_check", input |-> t.input, status |-> 200,
                output |-> t.status_obj]
    /\ tasks' = tasks \ {t}
    /\ UNCHANGED <<reviews, clock, uuids>>

\* GET /status
get_status_checks ==
    /\ last' = [op |-> "get_status_checks", status |-> 200,
                output |-> parse_dates(to_list(find(status_checks), StatusListCap),
                                       "timestamp")]
    /\ UNCHANGED <<reviews, status_checks, clock, uuids, tasks>>

Next ==
    \/ Tick(MaxTicks * ClockStep)
    \/ root
    \/ \E body \in ReviewBodies : create_review(body, MaxDocs)
    \/ \E t \in tasks : create_review_resume(t)
    \/ \E param \in SortParams : get_reviews(param)
    \/ get_review_stats
    \/ \E body \in StatusBodies : create_status_check(body, MaxDocs)
    \/ \E t \in tasks : create_status_check_resume(t)
    \/ get_status_checks

Spec == Init /\ [][Next]_vars

----------------------------------------------------------------------------
(* One client that sends one request at a time: reviews that differ in the *)
(* rating, then lists.  An insert takes one clock advance, except that the *)
(* first may take none, so that the first two reviews may carry the same   *)
(* created_at.                                                             *)

\* bodies that differ in the rating only
RatingBodies == {[BaseBody EXCEPT !.rating = <<r>>] : r \in (RatingMin + 1)..RatingMax}

\* the clock still reads what the suspended coroutine t read
SameReading(t) ==
    Now(clock) = (IF t.op = "create_review" THEN t.review.created_at
                  ELSE t.status_obj.timestamp)

NextRatings ==
    \/ (\E t \in tasks : SameReading(t)) /\ Tick(MaxRatings * ClockStep)
    \/ tasks = {} /\ \E body \in RatingBodies : create_review(body, MaxRatings)
    \/ \E t \in tasks :
          /\ ~SameReading(t) \/ reviews = <<>>
          /\ create_review_resume(t)
    \/ tasks = {} /\ \E s \in SortOrder : get_reviews(<<s>>)

SpecRatings == Init /\ [][NextRatings]_vars

----------------------------------------------------------------------------
(* The service on collections that hold as many documents as the lists     *)
(* return at most, with one client that sends one request at a time.  An   *)
(* insert takes one clock advance.                                         *)

\* the i-th of the reviews posted before, one per clock advance
FilledReview(i) ==
    insert_one(Str(0, i - 1),
               review_doc(Review(BaseBody.name[1], BaseBody.rating[1],
                                 BaseBody.comment, i, Now(i * ClockStep))))[i]

\* the i-th of the status checks posted before, after the n reviews
FilledStatus(i, n) ==
    insert_one(Str(0, i - 1),
               status_doc(StatusCheck(Str(98, 1), n + i, Now((n + i) * ClockStep))))[i]

InitCap ==
    /\ reviews = [i \in 1..ReviewListCap |-> FilledReview(i)]
    /\ status_checks = [i \in 1..StatusListCap |-> FilledStatus(i, ReviewListCap)]
    /\ clock = (ReviewListCap + StatusListCap + 1) * ClockStep
    /\ uuids = ReviewListCap + StatusListCap
    /\ tasks = {}
    /\ last = [op |-> "none", status |-> 0]

\* the documents the model may store
CapDocs == ReviewListCap + StatusListCap + CapExtra

NextCap ==
    \/ (\E t \in tasks : SameReading(t)) /\ Tick((CapDocs + 1) * ClockStep)
    \/ tasks = {} /\ create_review(BaseBody, CapDocs)
    \/ \E t \in tasks : ~SameReading(t) /\ create_review_resume(t)
    \/ tasks = {} /\ \E s \in SortOrder : get_reviews(<<s>>)
    \/ tasks = {} /\ create_status_check([client_name |-> <<Str(98, 1)>>], CapDocs)
    \/ \E t \in tasks : ~SameReading(t) /\ create_status_check_resume(t)
    \/ tasks = {} /\ get_status_checks

SpecCap == InitCap /\ [][NextCap]_vars

----------------------------------------------------------------------------
(* One client that posts reviews that differ in the rating and asks for    *)
(* the statistics, on an empty collection and on one that holds as many    *)
(* documents as a list returns at most.                                    *)

InitStats == Init \/ InitCap

NextStats ==
    \/ (\E t \in tasks : SameReading(t)) /\ Tick((CapDocs + 1) * ClockStep)
    \/ /\ tasks = {}
       /\ \E body \in RatingBodies :
              create_review(body, IF status_checks = <<>> THEN MaxRatings ELSE CapDocs)
    \/ \E t \in tasks : ~SameReading(t) /\ create_review_resume(t)
    \/ tasks = {} /\ get_review_stats

SpecStats == InitStats /\ [][NextStats]_vars

----------------------------------------------------------------------------
(* The claims.                                                             *)

\* a POST /reviews body breaks a bound of the Review data model, or lacks
\* name or rating
BreaksBound(body) ==
    \/ body.name = <<>>
    \/ body.rating = <<>>
    \/ Len(body.name[1]) = 0
    \/ Len(body.name[1]) > 100
    \/ body.rating[1] < 1
    \/ body.rating[1] > 5
    \/ (body.comment # <<>> /\ Len(body.comment[1]) > 500)

\* the instant a datetime names, in microseconds
Micros(dt) == dt.minute * 60000000 + dt.second * 1000000 + dt.microsecond

\* listed record a may come right before b under the sort selector
InOrder(a, b, sort) ==
    CASE sort = "date_desc" -> Micros(a.created_at) >= Micros(b.created_at)
      [] sort = "date_asc" -> Micros(a.created_at) <= Micros(b.created_at)
      [] sort = "rating_desc" ->
            \/ a.rating > b.rating
            \/ a.rating = b.rating /\ Micros(a.created_at) >= Micros(b.created_at)
      [] sort = "rating_asc" ->
            \/ a.rating < b.rating
            \/ a.rating = b.rating /\ Micros(a.created_at) >= Micros(b.created_at)

Ratings(docs) == [i \in 1..Len(docs) |-> docs[i].rating]

Ids(docs) == {docs[i].id : i \in 1..Len(docs)}

\* C1: a POST /reviews whose body breaks a bound (rating below 1 or above 5,
\* empty name, name over 100 characters, comment over 500 characters, name or
\* rating missing) ends in a validation failure, and the review collection
\* and the inserts under way are what they were before the request.
C1_InvalidReviewRejected ==
    [][(last' # last /\ last'.op = "create_review" /\ BreaksBound(last'.input))
          => (last'.status = 422 /\ reviews' = reviews /\ tasks' = tasks)]_vars

C1_Witness ==
    /\ last.op = "create_review"
    /\ last.status = 422
    /\ BreaksBound(last.input)
    /\ Len(reviews) >= 1

\* C2: every stored review has a name of 1 to 100 characters, a rating from
\* 1 to 5 and a comment that is absent or of at most 500 characters.
C2_StoredReviewsWithinBounds ==
    \A i \in 1..Len(reviews) :
        /\ Len(reviews[i].name) >= 1
        /\ Len(reviews[i].name) <= 100
        /\ reviews[i].rating \in 1..5
        /\ reviews[i].comment = <<>> \/ Len(reviews[i].comment[1]) <= 500

C2_Witness ==
    \E i \in 1..Len(reviews) :
        /\ Len(reviews[i].name) = 100
        /\ reviews[i].rating = 1
        /\ reviews[i].comment # <<>>
        /\ Len(reviews[i].comment[1]) = 500

\* C3: a POST /reviews with a body within the bounds succeeds, appends exactly
\* one document to the review collection, and the record returned and the
\* document inserted both carry the name, rating and comment of the body (no
\* comment stays no comment), the same id, new to the collection, and the
\* same created_at.
C3_ValidReviewStoredAsReturned ==
    [][(last' # last /\ last'.op = "create_review" /\ ~BreaksBound(last'.input))
          => /\ last'.status = 200
             /\ Len(reviews') = Len(reviews) + 1
             /\ SubSeq(reviews', 1, Len(reviews)) = reviews
             /\ LET doc == reviews'[Len(reviews')]
                    out == last'.output
                    body == last'.input
                IN  /\ out.name = body.name[1] /\ doc.name = body.name[1]
                    /\ out.rating = body.rating[1] /\ doc.rating = body.rating[1]
                    /\ out.comment = body.comment /\ doc.comment = body.comment
                    /\ doc.id = out.id
                    /\ doc.id \notin Ids(reviews)
                    /\ fromisoformat(doc.created_at) = out.created_at]_vars

C3_Witness ==
    /\ last.op = "create_review"
    /\ last.status = 200
    /\ last.input.comment = <<>>
    /\ last.output.created_at.microsecond # 0
    /\ Len(reviews) = 2

\* C4: GET /reviews/stats returns total_reviews equal to the number of stored
\* reviews, however many, and average_rating equal to the mean of their
\* ratings rounded to one decimal place (a tenth nearest to the mean); 0.0 and
\* 0 on an empty collection; 3.8 and 5 for the ratings 5, 4, 3, 5, 2.
C4_StatsAreMeanAndCount ==
    last.op = "get_review_stats" =>
        LET n == Len(reviews)
            sum == SumRatings(reviews)
            avg == last.output.average_rating
            off == avg * n - 10 * sum
        IN  /\ last.status = 200
            /\ last.output.total_reviews = n
            /\ n = 0 => avg = 0
            /\ n > 0 => 2 * (IF off < 0 THEN -off ELSE off) <= n
            /\ Ratings(reviews) = <<5, 4, 3, 5, 2>> => avg = 38

C4_Witness ==
    /\ last.op = "get_review_stats"
    /\ Ratings(reviews) = <<5, 4, 3, 5, 2>>
    /\ last.output = [average_rating |-> 38, total_reviews |-> 5]

\* C5: GET /reviews returns every stored review, in the order of the sort
\* selector: date_desc newest first, date_asc oldest first, rating_desc
\* highest rating first, rating_asc lowest rating first, and in both rating
\* orders reviews of equal rating newest first.  Ratings 5, 4, 3, 5, 2 created
\* in that order list under rating_desc as 5, 5, 4, 3, 2, the later 5 first.
C5_ListInSelectedOrder ==
    (last.op = "get_reviews" /\ last.status = 200) =>
        LET out == last.output
            sort == last.input[1]
        IN  /\ Len(out) = Len(reviews)
            /\ Ids(out) = Ids(reviews)
            /\ \A i \in 1..(Len(out) - 1) : InOrder(out[i], out[i + 1], sort)
            /\ (Ratings(reviews) = <<5, 4, 3, 5, 2>> /\ sort = "rating_desc") =>
                   /\ Ratings(out) = <<5, 5, 4, 3, 2>>
                   /\ out[1].id = reviews[4].id
                   /\ out[2].id = reviews[1].id

C5_Witness ==
    /\ last.op = "get_reviews"
    /\ last.status = 200
    /\ last.input = <<"rating_desc">>
    /\ Ratings(reviews) = <<5, 4, 3, 5, 2>>
    /\ Ratings(last.output) = <<5, 5, 4, 3, 2>>

\* the lists GET /reviews?sort=date_desc may return in the current state
DateDescLists ==
    {parse_dates(to_list(sorted, ReviewListCap), "created_at") :
        sorted \in cursor_sort(find(reviews), sort_options("date_desc"))}

\* C6: GET /reviews with a sort value outside the four selectors ends in a
\* validation failure and returns no list; with the sort parameter omitted it
\* returns a list that sort=date_desc returns.
C6_SortParameter ==
    last.op = "get_reviews" =>
        /\ (/\ last.input # <<>>
            /\ last.input[1] \notin {"date_desc", "date_asc", "rating_desc", "rating_asc"})
              => (last.status = 422 /\ last.output = {"sort"})
        /\ last.input = <<>> => (last.status = 200 /\ last.output \in DateDescLists)

C6_Witness ==
    /\ last.op = "get_reviews"
    /\ last.input = <<"rating">>
    /\ last.status = 422
    /\ Len(reviews) = 2

\* a stored review as the list shows it
Listed(doc) == [doc EXCEPT !.created_at = fromisoformat(doc.created_at)]

\* C7: GET /reviews and GET /status return at most 1000 records; with more
\* than 1000 reviews stored, GET /reviews returns exactly 1000 of them, in the
\* selected order, and none of the reviews left out sorts before one returned.
C7_ListsCappedAt1000 ==
    /\ last.op = "get_status_checks" => Len(last.output) <= 1000
    /\ (last.op = "get_reviews" /\ last.status = 200) =>
           LET out == last.output
               sort == last.input[1]
           IN  /\ Len(out) <= 1000
               /\ Len(reviews) > 1000 =>
                      /\ Len(out) = 1000
                      /\ Cardinality(Ids(out)) = 1000
                      /\ Ids(out) \subseteq Ids(reviews)
                      /\ \A i \in 1..999 : InOrder(out[i], out[i + 1], sort)
                      /\ \A i \in 1..Len(reviews) :
                             reviews[i].id \notin Ids(out)
                                 => InOrder(out[1000], Listed(reviews[i]), sort)

C7_Witness ==
    /\ last.op = "get_reviews"
    /\ last.status = 200
    /\ last.input = <<"date_asc">>
    /\ Len(reviews) = 1002
    /\ Len(last.output) = 1000
    /\ last.output[1000].id = reviews[1000].id

\* C8: the review collection is append-only: a stored review stays stored and
\* unchanged, only a completed POST /reviews adds a document, and the list,
\* stats, status and root endpoints leave the collection as it is.
C8_ReviewsAppendOnly ==
    [][/\ Len(reviews') >= Len(reviews)
       /\ SubSeq(reviews', 1, Len(reviews)) = reviews
       /\ reviews' # reviews =>
              /\ last'.op = "create_review"
              /\ last'.status = 200
              /\ Len(reviews') = Len(reviews) + 1
       /\ (/\ last' # last
           /\ last'.op \in {"root", "get_reviews", "get_review_stats",
                            "create_status_check", "get_status_checks"})
              => reviews' = reviews]_vars

C8_Witness ==
    /\ last.op = "get_status_checks"
    /\ Len(last.output) = 1
    /\ Len(reviews) = 1

\* C9: under every interleaving of POST /reviews handlers, every accepted
\* request is either under way or stored as a document of its own: the
\* stored reviews have pairwise distinct ids, also when their payloads are
\* identical, and none is lost, merged or deduplicated.
C9_NoSubmissionLost ==
    /\ \A i, j \in 1..Len(reviews) : i # j => reviews[i].id # reviews[j].id
    /\ uuids = Len(reviews) + Len(status_checks) + Cardinality(tasks)
    /\ Ids(reviews) \cup {status_checks[i].id : i \in 1..Len(status_checks)}
         \cup {IF t.op = "create_review" THEN t.review.id ELSE t.status_obj.id : t \in tasks}
         = 1..uuids

\* two handlers with the same payload, read at the same instant, the one that
\* started later inserting first
C9_Witness ==
    /\ Len(reviews) = 2
    /\ reviews[1].id > reviews[2].id
    /\ [reviews[1] EXCEPT !.id = 0, !["_id"] = 0] = [reviews[2] EXCEPT !.id = 0, !["_id"] = 0]

\* C10 as stated: every stored status check has a non-empty client_name.
C10_ClientNameNonEmpty ==
    \A i \in 1..Len(status_checks) : Len(status_checks[i].client_name) >= 1

\* C10, amended: POST /status rejects only a body without client_name; any
\* client_name given, the empty string included, is persisted as it is.
C10_ClientNameStoredAsGiven ==
    last.op = "create_status_check" =>
        /\ last.input.client_name = <<>> <=> last.status = 422
        /\ last.input.client_name # <<>> =>
               /\ last.status = 200
               /\ status_checks # <<>>
               /\ status_checks[Len(status_checks)].client_name = last.input.client_name[1]
               /\ status_checks[Len(status_checks)].id = last.output.id

C10_Witness ==
    /\ last.op = "create_status_check"
    /\ last.status = 200
    /\ last.input.client_name = <<Str(98, 0)>>
    /\ status_checks[Len(status_checks)].client_name = <<>>

====
